---- MODULE Spec2Model ----
(***************************************************************************)
(* Model of src/booster.rs of lightgbm-rs: the Booster wrapper around a    *)
(* native LightGBM model handle.                                           *)
(*                                                                         *)
(* The program is single threaded.  The Dataset that train consumes, the   *)
(* numbers predict reads and writes and the text of the native engine's    *)
(* error messages are left out.  Every native call is one step of the      *)
(* model; the status the native engine returns is an input of that step.   *)
(* `calls' records the native calls issued by the operation in progress    *)
(* (or by the last finished one), `result' what that operation gave back   *)
(* to its caller.  Text is a sequence of one-character strings; the byte 0 *)
(* is the character NUL.                                                   *)
(***************************************************************************)
EXTENDS Integers, Sequences, FiniteSets, TLC

(* ------------------------------ bounds --------------------------------- *)

\* Booster objects the program constructs in one run.
MaxBoosters == 2

\* Addresses the native engine can hand out as handles.
MaxHandles == 2

\* Largest num_iterations value a configuration names explicitly.
MaxIter == 3

\* Longest input slice given to predict.
MaxLen == 4

\* Largest column count given to predict; the counts range over -MaxCol..MaxCol.
MaxCol == 2

\* Largest class / feature count the native engine reports.
MaxNative == 2

(* ------------------------- program constants --------------------------- *)

\* booster.rs:62, the iteration count used when num_iterations is null.
DefaultNumIterations == 100

\* booster.rs:167, capacity of one feature-name slot.
feature_name_length == 32

\* booster.rs:25 and 77, std::ptr::null_mut().
null_mut == 0

(* ------------------------------- text ---------------------------------- *)

NUL == "NUL"

RECURSIVE Concat(_)
\* The concatenation of a sequence of texts.
Concat(ss) == IF ss = <<>> THEN <<>> ELSE Head(ss) \o Concat(Tail(ss))

RECURSIVE Join(_, _)
\* [String]::join(sep)
Join(ss, sep) ==
    IF ss = <<>> THEN <<>>
    ELSE IF Len(ss) = 1 THEN Head(ss)
    ELSE Head(ss) \o sep \o Join(Tail(ss), sep)

DigitChar(d) == <<"0", "1", "2", "3", "4", "5", "6", "7", "8", "9">>[d + 1]

RECURSIVE NatDigits(_)
NatDigits(n) ==
    IF n < 10 THEN <<DigitChar(n)>>
    ELSE NatDigits(n \div 10) \o <<DigitChar(n % 10)>>

\* Display of an i64: decimal digits, a leading minus sign when negative.
IntDigits(n) == IF n < 0 THEN <<"-">> \o NatDigits(0 - n) ELSE NatDigits(n)

\* CString::new(text) is Err exactly when the text has an interior 0 byte.
HasNul(text) == \E k \in 1..Len(text) : text[k] = NUL

(* --------------------------- serde_json::Value ------------------------- *)

JNull == [kind |-> "null", int |-> 0, str |-> <<>>, elems |-> <<>>]
JInt(n) == [kind |-> "int", int |-> n, str |-> <<>>, elems |-> <<>>]
JStr(s) == [kind |-> "string", int |-> 0, str |-> s, elems |-> <<>>]
\* elems: the items, in order.
JArray(items) == [kind |-> "array", int |-> 0, str |-> <<>>, elems |-> items]
\* elems: the entries <<key, value>>, in the map's iteration order.
JObject(entries) == [kind |-> "object", int |-> 0, str |-> <<>>, elems |-> entries]

\* serde_json writes a character of a string literal escaped when it is a
\* quotation mark, a backslash or a control character.
EscapeChar(c) ==
    IF c = "\"" THEN <<"\\", "\"">>
    ELSE IF c = "\\" THEN <<"\\", "\\">>
    ELSE IF c = NUL THEN <<"\\", "u", "0", "0", "0", "0">>
    ELSE <<c>>

EscapeStr(s) == Concat([k \in 1..Len(s) |-> EscapeChar(s[k])])

Quoted(s) == <<"\"">> \o EscapeStr(s) \o <<"\"">>

RECURSIVE Display(_)
\* impl Display for serde_json::Value: the compact JSON text of the value.
Display(v) ==
    CASE v.kind = "null" -> <<"n", "u", "l", "l">>
      [] v.kind = "int" -> IntDigits(v.int)
      [] v.kind = "string" -> Quoted(v.str)
      [] v.kind = "array" ->
            <<"[">> \o Join([k \in 1..Len(v.elems) |-> Display(v.elems[k])], <<",">>)
                    \o <<"]">>
      [] v.kind = "object" ->
            <<"{">> \o Join([k \in 1..Len(v.elems) |->
                                Quoted(v.elems[k][1]) \o <<":">> \o Display(v.elems[k][2])],
                            <<",">>)
                    \o <<"}">>

\* Value::as_object(): Some(map) for an object, None otherwise.
as_object(v) == IF v.kind = "object" THEN <<v.elems>> ELSE <<>>

\* Value::as_i64(): Some(n) for an integer, None otherwise.
as_i64(v) == IF v.kind = "int" THEN <<v.int>> ELSE <<>>

\* parameter[key]: the entry's value; Value::Null when the key is absent or
\* the value indexed is no object.
Index(v, key) ==
    IF v.kind = "object" /\ \E k \in 1..Len(v.elems) : v.elems[k][1] = key
    THEN v.elems[CHOOSE k \in 1..Len(v.elems) : v.elems[k][1] = key][2]
    ELSE JNull

is_null(v) == v.kind = "null"

(* ------------------------ inputs given to train ------------------------ *)

KeyNumIterations == <<"n", "u", "m", "_", "i", "t", "e", "r", "a", "t", "i", "o", "n", "s">>
KeyX == <<"x">>
KeyZ == <<"z">>
KeyWithNul == <<"k", NUL>>

\* The num_iterations entry of a configuration: a sequence of zero or one
\* <<key, value>> pairs.
NumIterationsEntries ==
    {<<>>} \cup {<<<<KeyNumIterations, v>>>> :
                    v \in {JNull, JStr(<<"y">>)} \cup {JInt(n) : n \in -1..MaxIter}}

\* The values given for the key x besides a number.
XValues ==
    {JStr(<<"y">>), JArray(<<JInt(1), JInt(2)>>), JObject(<<<<<<"a">>, JInt(1)>>>>)}

\* The configurations train is called with.  The entries of an object are in
\* the order the map iterates them.
Parameters ==
    {JObject(n) : n \in NumIterationsEntries}
    \cup {JObject(<<<<KeyNumIterations, JInt(2)>>, <<KeyX, v>>>>) : v \in XValues}
    \cup {JObject(<<<<KeyX, JStr(<<"y">>)>>, <<KeyZ, JInt(1)>>>>),
          JObject(<<<<KeyWithNul, JInt(1)>>, <<KeyNumIterations, JInt(2)>>>>),
          JNull, JInt(3), JArray(<<JInt(1), JInt(2)>>)}

(* -------------------- the parameter encoding of train ------------------ *)

\* The default is taken one too small.
ResolveNumIterationsShort(parameter) ==
    IF is_null(Index(parameter, KeyNumIterations))
    THEN <<DefaultNumIterations - 1>>
    ELSE as_i64(Index(parameter, KeyNumIterations))

\* booster.rs:61-65.  <<n>> is the iteration count; <<>> is the panic of
\* unwrap() on the None that as_i64() gives for a value that is no integer.
ResolveNumIterations(parameter) ==
    IF is_null(Index(parameter, KeyNumIterations))
    THEN <<DefaultNumIterations>>
    ELSE as_i64(Index(parameter, KeyNumIterations))

\* format!("{}={}", k, v): the key as it is, the value by its Display.
FormatPair(k, v) == k \o <<"=">> \o Display(v)

\* A num_iterations pair with the default is added when the key is absent.
ParamsStringWithDefault(parameter) ==
    IF as_object(parameter) = <<>> THEN <<>>
    ELSE LET map == as_object(parameter)[1]
             given == [k \in 1..Len(map) |-> FormatPair(map[k][1], map[k][2])]
             all == IF \E k \in 1..Len(map) : map[k][1] = KeyNumIterations
                    THEN given
                    ELSE Append(given, FormatPair(KeyNumIterations,
                                                  JInt(DefaultNumIterations)))
         IN <<Join(all, <<" ">>)>>

\* booster.rs:68-74.  <<text>> is the parameter string; <<>> is the panic of
\* unwrap() on the None that as_object() gives for a value that is no object.
ParamsString(parameter) ==
    IF as_object(parameter) = <<>> THEN <<>>
    ELSE LET map == as_object(parameter)[1]
         IN <<Join([k \in 1..Len(map) |-> FormatPair(map[k][1], map[k][2])], <<" ">>)>>

\* CString::new(text).unwrap(): <<text>>, or <<>> for the panic on a 0 byte.
CStringNew(text) == IF HasNul(text) THEN <<>> ELSE <<text>>

\* booster.rs:60-75, the part of train before its first native call:
\* <<num_iterations, params_cstring>>, or <<>> when one of the unwraps panics.
TrainArguments(parameter) ==
    IF ResolveNumIterations(parameter) = <<>> THEN <<>>
    ELSE IF ParamsString(parameter) = <<>> THEN <<>>
    ELSE IF CStringNew(ParamsString(parameter)[1]) = <<>> THEN <<>>
    ELSE <<ResolveNumIterations(parameter)[1], CStringNew(ParamsString(parameter)[1])[1]>>

(* --------------------------- integer arithmetic ------------------------ *)

I32Max == 2147483647

\* usize as i32: the low 32 bits, read as a signed number.
AsI32(n) == IF n <= I32Max THEN n ELSE n - I32Max - I32Max - 2

\* The quotient is rounded away from zero.
RustDivUp(a, b) ==
    LET m == IF a >= 0 THEN a ELSE 0 - a
        d == IF b > 0 THEN b ELSE 0 - b
        q == (m + d - 1) \div d
    IN IF (a >= 0) = (b > 0) THEN q ELSE 0 - q

\* i32 / i32 rounds toward zero; b # 0.
RustDiv(a, b) ==
    IF (a >= 0) = (b > 0) THEN (IF a >= 0 THEN a \div b ELSE (0 - a) \div (0 - b))
    ELSE 0 - ((IF a >= 0 THEN a ELSE 0 - a) \div (IF b > 0 THEN b ELSE 0 - b))

\* No columns give no rows: `checked_div(ncol).unwrap_or(0)'.
NrowZeroForNoColumns(len, ncol) ==
    IF ncol = 0 THEN <<0>> ELSE <<RustDiv(AsI32(len), ncol)>>

\* booster.rs:109, `data.len() as i32 / ncol': <<nrow>>, or <<>> for the panic
\* of a division by zero.
Nrow(len, ncol) == IF ncol = 0 THEN <<>> ELSE <<RustDiv(AsI32(len), ncol)>>

(* ------------------------- the native engine --------------------------- *)

Handles == 1..MaxHandles
BoosterIds == 1..MaxBoosters

\* The status a native call returns: 0 for success, -1 for failure.
Statuses == {0, 0 - 1}

\* The call-result adapter: Ok for status 0, else a failure carrying the
\* native engine's last error text.
lgbm_call(status) == IF status = 0 THEN "Ok" ELSE "NativeCallFailure"

\* The paths given to from_file and save_file: a path the native engine can
\* use, a path it cannot, and a text with an interior 0 byte.
GoodPath == <<"m">>
MissingPath == <<"?">>
NulPath == <<"m", NUL>>
Paths == {GoodPath, MissingPath, NulPath}

\* The statuses the native engine can return for a call on this path.
PathStatuses(path) == IF path = GoodPath THEN Statuses ELSE {0 - 1}

NumClasses == 1..MaxNative
NumFeatures == 0..MaxNative

VARIABLES
    boosters,   \* boosters[b]: the state of Booster b and the handle it holds
    allocated,  \* the handles the native engine has created and not freed
    frees,      \* frees[b]: the native free calls issued against b's handle
    pc,         \* the position of the program: "idle" between operations, a
                \* place inside an operation, or "returned" when one has ended
    self,       \* the Booster the operation in progress was called on, or 0
    frame,      \* the local variables of the operation in progress
    calls,      \* the native calls of the current (or last) operation, in order
    args,       \* the arguments the current (or last) operation was called with
    out_strs,   \* the text slots of the current (or last) feature_name call
    result      \* what the last finished operation gave to its caller

vars == <<boosters, allocated, frees, pc, self, frame, calls, args, out_strs, result>>

NoFrame ==
    [num_iterations |-> 0, params_cstring |-> <<>>, handle |-> null_mut, i |-> 0,
     is_finished |-> 0, nrow |-> 0, ncol |-> 0, num_class |-> 0, num_feature |-> 0]

NoArgs == [parameter |-> JNull, filename |-> <<>>, len |-> 0, ncol |-> 0]

\* value: the number the operation returned (a Booster, a count, the length
\* of a Vec<f64>); names: the Vec<String> that feature_name returned.
NoResult == [op |-> "none", kind |-> "none", value |-> 0, names |-> <<>>]

\* One native call: the function, the handle passed (null_mut if none), the
\* status returned, and the call's other arguments and outputs.  nrow and
\* ncol are the two numbers the call is given, in the order of the source:
\* the rows and columns of predict, feature_name_length and num_feature of
\* the get-feature-names call.
Call(fn, handle, status, params, nrow, ncol, out) ==
    [fn |-> fn, handle |-> handle, status |-> status, params |-> params,
     nrow |-> nrow, ncol |-> ncol, out |-> out,
     valid |-> (handle = null_mut \/ handle \in allocated)]

\* What a native create call writes to its out-parameter: with status 0 any
\* handle that is not in use (the address of a freed handle may come back),
\* else nothing, which leaves the caller's null_mut.  The native engine
\* fails when it has no address left.
NewHandle(status) == IF status = 0 THEN Handles \ allocated ELSE {null_mut}

\* The native calls of an operation on Booster b are counted against b when
\* they free its handle.
Count(b, call) ==
    frees' = IF call.fn = "LGBM_BoosterFree" THEN [frees EXCEPT ![b] = @ + 1] ELSE frees

\* Booster::new(handle)
BoosterNew(handle) == [st |-> "live", handle |-> handle]

Live == {b \in BoosterIds : boosters[b].st = "live"}
Unborn == {b \in BoosterIds : boosters[b].st = "unborn"}

\* The result an operation hands back, ending the operation.
Return(op, kind, value) ==
    /\ result' = [op |-> op, kind |-> kind, value |-> value, names |-> <<>>]
    /\ pc' = "returned"
    /\ self' = 0
    /\ frame' = NoFrame

Init ==
    /\ boosters = [b \in BoosterIds |-> [st |-> "unborn", handle |-> null_mut]]
    /\ allocated = {}
    /\ frees = [b \in BoosterIds |-> 0]
    /\ pc = "idle"
    /\ self = 0
    /\ frame = NoFrame
    /\ calls = <<>>
    /\ args = NoArgs
    /\ out_strs = <<>>
    /\ result = NoResult

(* ------------------------------ the caller ----------------------------- *)

\* The caller has the result of the operation that ended (as the tests do at
\* booster.rs:238, 271 or 312) and goes on.
caller_continues ==
    /\ pc = "returned"
    /\ pc' = "idle"
    /\ calls' = <<>>
    /\ args' = NoArgs
    /\ out_strs' = <<>>
    /\ result' = NoResult
    /\ UNCHANGED <<boosters, allocated, frees, self, frame>>

(* ------------------------------ from_file ------------------------------ *)

\* booster.rs:22-33
from_file ==
    /\ pc = "idle"
    /\ Unborn # {}
    /\ \E filename \in Paths :
          args' = [NoArgs EXCEPT !.filename = filename] /\
          IF CStringNew(filename) = <<>>
          THEN /\ calls' = <<>>
               /\ Return("from_file", "panic", 0)
               /\ UNCHANGED <<boosters, allocated, frees, out_strs>>
          ELSE \E status \in PathStatuses(filename) :
                 \E handle \in NewHandle(status) :
                    /\ calls' = <<Call("LGBM_BoosterCreateFromModelfile", null_mut,
                                       status, filename, 0, 0, handle)>>
                    /\ IF lgbm_call(status) = "Ok"
                       THEN LET b == CHOOSE x \in Unborn : \A y \in Unborn : x <= y
                            IN /\ allocated' = allocated \cup {handle}
                               /\ boosters' = [boosters EXCEPT ![b] = BoosterNew(handle)]
                               /\ Return("from_file", "Ok", b)
                       ELSE /\ Return("from_file", lgbm_call(status), 0)
                            /\ UNCHANGED <<boosters, allocated>>
                    /\ UNCHANGED <<frees, out_strs>>

(* -------------------------------- train -------------------------------- *)

\* booster.rs:59-82: the arguments, then the create call.
train_create ==
    /\ pc = "idle"
    /\ Unborn # {}
    /\ \E parameter \in Parameters :
          args' = [NoArgs EXCEPT !.parameter = parameter] /\
          IF TrainArguments(parameter) = <<>>
          THEN /\ calls' = <<>>
               /\ Return("train", "panic", 0)
               /\ UNCHANGED <<boosters, allocated, frees, out_strs>>
          ELSE \E status \in Statuses :
                 \E handle \in NewHandle(status) :
                    /\ calls' = <<Call("LGBM_BoosterCreate", null_mut, status,
                                       TrainArguments(parameter)[2], 0, 0, handle)>>
                    /\ IF lgbm_call(status) = "Ok"
                       THEN /\ allocated' = allocated \cup {handle}
                            /\ pc' = "train_loop"
                            /\ frame' = [NoFrame EXCEPT
                                            !.num_iterations = TrainArguments(parameter)[1],
                                            !.params_cstring = TrainArguments(parameter)[2],
                                            !.handle = handle,
                                            !.i = 1]
                            /\ result' = NoResult
                            /\ UNCHANGED self
                       ELSE /\ Return("train", lgbm_call(status), 0)
                            /\ UNCHANGED allocated
                    /\ UNCHANGED <<boosters, frees, out_strs>>

\* The loop head skips the update when it should run it one more time.
LoopContinuesInclusive(i, num_iterations) == i <= num_iterations

\* The loop ends when the native engine has set is_finished.
LoopContinuesUntilFinished(i, num_iterations) ==
    i < num_iterations /\ frame.is_finished = 0

\* The loop body runs once before the range is looked at.
LoopContinuesAtLeastOnce(i, num_iterations) == i < num_iterations \/ i = 1

\* booster.rs:85, `for _ in 1..num_iterations': the range has the value i.
LoopContinues(i, num_iterations) == i < num_iterations

\* The status of the update call is dropped instead of passed through `?'.
train_update_unchecked ==
    /\ pc = "train_loop"
    /\ LoopContinues(frame.i, frame.num_iterations)
    /\ \E status \in Statuses, finished \in {0, 1} :
          /\ calls' = Append(calls, Call("LGBM_BoosterUpdateOneIter", frame.handle,
                                         status, <<>>, 0, 0, 0))
          /\ frame' = [frame EXCEPT !.i = @ + 1, !.is_finished = finished]
          /\ UNCHANGED <<pc, self, result>>
    /\ UNCHANGED <<args, boosters, allocated, frees, out_strs>>

\* booster.rs:85-90: one turn of the loop `for _ in 1..num_iterations'.
train_update ==
    /\ pc = "train_loop"
    /\ LoopContinues(frame.i, frame.num_iterations)
    /\ \E status \in Statuses, finished \in {0, 1} :
          /\ calls' = Append(calls, Call("LGBM_BoosterUpdateOneIter", frame.handle,
                                         status, <<>>, 0, 0, 0))
          /\ IF lgbm_call(status) = "Ok"
             THEN /\ frame' = [frame EXCEPT !.i = @ + 1, !.is_finished = finished]
                  /\ UNCHANGED <<pc, self, result>>
             ELSE Return("train", lgbm_call(status), 0)
    /\ UNCHANGED <<args, boosters, allocated, frees, out_strs>>

\* The Booster returned holds the handle of a Booster that is alive already.
train_return_shared ==
    /\ pc = "train_loop"
    /\ ~LoopContinues(frame.i, frame.num_iterations)
    /\ LET b == CHOOSE x \in Unborn : \A y \in Unborn : x <= y
           h == IF Live = {} THEN frame.handle
                ELSE boosters[CHOOSE x \in Live : TRUE].handle
       IN /\ boosters' = [boosters EXCEPT ![b] = BoosterNew(h)]
          /\ Return("train", "Ok", b)
    /\ UNCHANGED <<args, allocated, frees, calls, out_strs>>

\* booster.rs:91: the loop is over, Ok(Booster::new(handle)).
train_return ==
    /\ pc = "train_loop"
    /\ ~LoopContinues(frame.i, frame.num_iterations)
    /\ LET b == CHOOSE x \in Unborn : \A y \in Unborn : x <= y
       IN /\ boosters' = [boosters EXCEPT ![b] = BoosterNew(frame.handle)]
          /\ Return("train", "Ok", b)
    /\ UNCHANGED <<args, allocated, frees, calls, out_strs>>

(* ------------------------------- predict ------------------------------- *)

\* booster.rs:107-120: the row count, then the num-classes query.
predict_num_class ==
    /\ pc = "idle"
    /\ \E b \in Live, len \in 0..MaxLen, ncol \in (0 - MaxCol)..MaxCol :
          args' = [NoArgs EXCEPT !.len = len, !.ncol = ncol] /\
          IF Nrow(len, ncol) = <<>>
          THEN /\ calls' = <<>>
               /\ Return("predict", "panic", 0)
               /\ UNCHANGED frees
          ELSE \E status \in Statuses, num_class \in NumClasses :
                 LET call == Call("LGBM_BoosterGetNumClasses", boosters[b].handle,
                                  status, <<>>, 0, 0, num_class)
                 IN /\ calls' = <<call>>
                    /\ Count(b, call)
                    /\ IF lgbm_call(status) = "Ok"
                       THEN /\ pc' = "predict_for_mat"
                            /\ self' = b
                            /\ frame' = [NoFrame EXCEPT
                                            !.nrow = Nrow(len, ncol)[1],
                                            !.ncol = ncol,
                                            !.num_class = num_class]
                            /\ result' = NoResult
                       ELSE Return("predict", lgbm_call(status), 0)
    /\ UNCHANGED <<boosters, allocated, out_strs>>

\* booster.rs:122-141: the output buffer, then the predict call.  A negative
\* length cast to usize is more than a Vec can hold: vec! panics.
predict_for_mat ==
    /\ pc = "predict_for_mat"
    /\ IF frame.nrow * frame.num_class < 0
       THEN /\ Return("predict", "panic", 0)
            /\ UNCHANGED <<calls, frees>>
       ELSE \E status \in Statuses :
              LET call == Call("LGBM_BoosterPredictForMat", boosters[self].handle,
                               status, <<>>, frame.nrow, frame.ncol, 0)
              IN /\ calls' = Append(calls, call)
                 /\ Count(self, call)
                 /\ IF lgbm_call(status) = "Ok"
                    THEN Return("predict", "Ok", frame.nrow * frame.num_class)
                    ELSE Return("predict", lgbm_call(status), 0)
    /\ UNCHANGED <<args, boosters, allocated, out_strs>>

(* --------------------------- num_class, num_feature -------------------- *)

\* booster.rs:144-152
num_class ==
    /\ pc = "idle"
    /\ \E b \in Live, status \in Statuses, n \in NumClasses :
          LET call == Call("LGBM_BoosterGetNumClasses", boosters[b].handle,
                           status, <<>>, 0, 0, n)
          IN /\ calls' = <<call>>
             /\ Count(b, call)
             /\ IF lgbm_call(status) = "Ok"
                THEN Return("num_class", "Ok", n)
                ELSE Return("num_class", lgbm_call(status), 0)
    /\ UNCHANGED <<args, boosters, allocated, out_strs>>

\* booster.rs:155-162
num_feature ==
    /\ pc = "idle"
    /\ \E b \in Live, status \in Statuses, n \in NumFeatures :
          LET call == Call("LGBM_BoosterGetNumFeature", boosters[b].handle,
                           status, <<>>, 0, 0, n)
          IN /\ calls' = <<call>>
             /\ Count(b, call)
             /\ IF lgbm_call(status) = "Ok"
                THEN Return("num_feature", "Ok", n)
                ELSE Return("num_feature", lgbm_call(status), 0)
    /\ UNCHANGED <<args, boosters, allocated, out_strs>>

(* ----------------------------- feature_name ---------------------------- *)

\* booster.rs:166, `self.num_feature()?' with num_feature at 155-162.
feature_name_num_feature ==
    /\ pc = "idle"
    /\ \E b \in Live, status \in Statuses, n \in NumFeatures :
          LET call == Call("LGBM_BoosterGetNumFeature", boosters[b].handle,
                           status, <<>>, 0, 0, n)
          IN /\ calls' = <<call>>
             /\ Count(b, call)
             /\ IF lgbm_call(status) = "Ok"
                THEN /\ pc' = "feature_name_get"
                     /\ self' = b
                     /\ frame' = [NoFrame EXCEPT !.num_feature = n]
                     /\ result' = NoResult
                ELSE Return("feature_name", lgbm_call(status), 0)
    /\ out_strs' = <<>>
    /\ UNCHANGED <<args, boosters, allocated>>

\* One slot too many is allocated.
OutStrsOneMore(n) ==
    [k \in 1..(n + 1) |-> [state |-> "raw", text |-> 0]]

\* booster.rs:170-176: one slot per value of the range 0..n (n is the local
\* num_feature), each a
\* CString of feature_name_length spaces given away with into_raw().  The
\* text of a slot is 0 while it holds the spaces.
OutStrs(n) == [k \in 1..n |-> [state |-> "raw", text |-> 0]]

\* What the native get-feature-names call leaves in the slots when it
\* succeeds: the name of feature k, written k, in slot k.
Filled(slots) == [k \in 1..Len(slots) |-> [slots[k] EXCEPT !.text = k]]

\* The slots after `into_iter().map(from_raw ... unwrap())' met its first text
\* that is no UTF-8 at slot bad (0: none): the slots up to it are reclaimed.
Reclaimed(slots, bad) ==
    [k \in 1..Len(slots) |->
        IF bad = 0 \/ k <= bad THEN [slots[k] EXCEPT !.state = "reclaimed"] ELSE slots[k]]

\* The texts are collected from the last slot to the first.
IntoStringsReversed(slots) == [k \in 1..Len(slots) |-> slots[Len(slots) + 1 - k].text]

\* booster.rs:185-188: the Vec<String> collected from the slots, in their
\* order.
IntoStrings(slots) == [k \in 1..Len(slots) |-> slots[k].text]

\* booster.rs:167-190: one raw slot per feature, the get-feature-names call,
\* then every slot is taken back as an owned text.  The call is given
\* feature_name_length and num_feature, in this order.
feature_name_get ==
    /\ pc = "feature_name_get"
    /\ \E status \in Statuses, bad \in 0..frame.num_feature :
          LET call == Call("LGBM_BoosterGetFeatureNames", boosters[self].handle,
                           status, <<>>, feature_name_length, frame.num_feature, 0)
              slots == OutStrs(frame.num_feature)
          IN /\ calls' = Append(calls, call)
             /\ Count(self, call)
             /\ IF lgbm_call(status) = "Ok"
                THEN /\ out_strs' = Reclaimed(Filled(slots), bad)
                     /\ IF bad = 0
                        THEN /\ result' = [op |-> "feature_name", kind |-> "Ok",
                                           value |-> Len(IntoStrings(Filled(slots))),
                                           names |-> IntoStrings(Filled(slots))]
                             /\ pc' = "returned"
                             /\ self' = 0
                             /\ frame' = NoFrame
                        ELSE Return("feature_name", "panic", 0)
                ELSE /\ bad = 0
                     /\ out_strs' = slots
                     /\ Return("feature_name", lgbm_call(status), 0)
    /\ UNCHANGED <<args, boosters, allocated>>

(* -------------------------- feature_importance ------------------------- *)

\* booster.rs:194, `self.num_feature()?' with num_feature at 155-162.
feature_importance_num_feature ==
    /\ pc = "idle"
    /\ \E b \in Live, status \in Statuses, n \in NumFeatures :
          LET call == Call("LGBM_BoosterGetNumFeature", boosters[b].handle,
                           status, <<>>, 0, 0, n)
          IN /\ calls' = <<call>>
             /\ Count(b, call)
             /\ IF lgbm_call(status) = "Ok"
                THEN /\ pc' = "feature_importance_get"
                     /\ self' = b
                     /\ frame' = [NoFrame EXCEPT !.num_feature = n]
                     /\ result' = NoResult
                ELSE Return("feature_importance", lgbm_call(status), 0)
    /\ UNCHANGED <<args, boosters, allocated, out_strs>>

\* booster.rs:195-203
feature_importance_get ==
    /\ pc = "feature_importance_get"
    /\ \E status \in Statuses :
          LET call == Call("LGBM_BoosterFeatureImportance", boosters[self].handle,
                           status, <<>>, 0, 0, 0)
          IN /\ calls' = Append(calls, call)
             /\ Count(self, call)
             /\ IF lgbm_call(status) = "Ok"
                THEN Return("feature_importance", "Ok", frame.num_feature)
                ELSE Return("feature_importance", lgbm_call(status), 0)
    /\ UNCHANGED <<args, boosters, allocated, out_strs>>

(* ------------------------------ save_file ------------------------------ *)

\* booster.rs:206-216
save_file ==
    /\ pc = "idle"
    /\ \E b \in Live, filename \in Paths :
          args' = [NoArgs EXCEPT !.filename = filename] /\
          IF CStringNew(filename) = <<>>
          THEN /\ calls' = <<>>
               /\ Return("save_file", "panic", 0)
               /\ UNCHANGED frees
          ELSE \E status \in PathStatuses(filename) :
                 LET call == Call("LGBM_BoosterSaveModel", boosters[b].handle,
                                  status, filename, 0, 0, 0)
                 IN /\ calls' = <<call>>
                    /\ Count(b, call)
                    /\ Return("save_file", lgbm_call(status), 0)
    /\ UNCHANGED <<boosters, allocated, out_strs>>

(* -------------------------------- drop --------------------------------- *)

\* The handle is freed and the Booster stays in use.
drop_keeps_booster ==
    /\ pc = "idle"
    /\ \E b \in Live, status \in Statuses :
          LET call == Call("LGBM_BoosterFree", boosters[b].handle, status, <<>>, 0, 0, 0)
          IN /\ calls' = <<call>>
             /\ Count(b, call)
             /\ allocated' = IF status = 0 THEN allocated \ {boosters[b].handle}
                             ELSE allocated
             /\ IF lgbm_call(status) = "Ok"
                THEN Return("drop", "Ok", b)
                ELSE Return("drop", "panic", b)
    /\ UNCHANGED <<args, boosters, out_strs>>

\* The failure of the free call is dropped: `let _ = lgbm_call!(..)'.
drop_swallows ==
    /\ pc = "idle"
    /\ \E b \in Live, status \in Statuses :
          LET call == Call("LGBM_BoosterFree", boosters[b].handle, status, <<>>, 0, 0, 0)
          IN /\ calls' = <<call>>
             /\ Count(b, call)
             /\ allocated' = IF status = 0 THEN allocated \ {boosters[b].handle}
                             ELSE allocated
             /\ boosters' = [boosters EXCEPT ![b] = [st |-> "dropped", handle |-> null_mut]]
             /\ Return("drop", "Ok", b)
    /\ UNCHANGED <<args, out_strs>>

\* booster.rs:219-223: the owner lets go of Booster b.  With status 0 the
\* native engine has freed the handle; unwrap() panics on any other status.
drop ==
    /\ pc = "idle"
    /\ \E b \in Live, status \in Statuses :
          LET call == Call("LGBM_BoosterFree", boosters[b].handle, status, <<>>, 0, 0, 0)
          IN /\ calls' = <<call>>
             /\ Count(b, call)
             /\ allocated' = IF status = 0 THEN allocated \ {boosters[b].handle}
                             ELSE allocated
             /\ boosters' = [boosters EXCEPT ![b] = [st |-> "dropped", handle |-> null_mut]]
             /\ IF lgbm_call(status) = "Ok"
                THEN Return("drop", "Ok", b)
                ELSE Return("drop", "panic", b)
    /\ UNCHANGED <<args, out_strs>>

Next ==
    \/ caller_continues
    \/ from_file
    \/ train_create
    \/ train_update
    \/ train_return
    \/ predict_num_class
    \/ predict_for_mat
    \/ num_class
    \/ num_feature
    \/ feature_name_num_feature
    \/ feature_name_get
    \/ feature_importance_num_feature
    \/ feature_importance_get
    \/ save_file
    \/ drop

Spec == Init /\ [][Next]_vars

(* ------------------------------ properties ----------------------------- *)

\* The operation op has ended and its caller has its result.
Returned(op) == pc = "returned" /\ result.op = op

\* The handles the create calls of the log gave out.
Created == {calls[k].out : k \in {j \in 1..Len(calls) :
                /\ calls[j].fn \in {"LGBM_BoosterCreate", "LGBM_BoosterCreateFromModelfile"}
                /\ calls[j].status = 0}}

\* The free calls of the log against handle h.
FreeCalls(h) ==
    {k \in 1..Len(calls) : calls[k].fn = "LGBM_BoosterFree" /\ calls[k].handle = h}

\* C1: when train fails on the create call or on an update call, no Booster
\* holds the handle the create call produced and that handle has been
\* released by one native free call before the error reaches the caller.
C1_TrainFailureReleasesHandle ==
    (Returned("train") /\ result.kind = "NativeCallFailure") =>
        \A h \in Created :
            /\ \A b \in Live : boosters[b].handle # h
            /\ h \notin allocated
            /\ Cardinality(FreeCalls(h)) = 1

\* C2: a Booster that is alive has had no free call against its handle, and
\* its handle is one the native engine still has; a Booster that was dropped
\* has had exactly one; and no native call was given a handle that the native
\* engine had freed.
C2_ExactlyOneFree ==
    /\ \A b \in BoosterIds :
          /\ boosters[b].st = "unborn" => frees[b] = 0
          /\ boosters[b].st = "live" =>
                frees[b] = 0 /\ boosters[b].handle \in allocated
          /\ boosters[b].st = "dropped" => frees[b] = 1
    /\ \A k \in 1..Len(calls) : calls[k].valid
    /\ \A k \in 1..Len(calls) :
          calls[k].fn = "LGBM_BoosterFree" => (Returned("drop") /\ Len(calls) = 1)

\* A Booster has been dropped and the native engine has freed its handle.
C2_Witness ==
    /\ Returned("drop")
    /\ boosters[result.value].st = "dropped"
    /\ frees[result.value] = 1
    /\ calls[1].status = 0

\* The log of a train that made n rounds: the create call, then n - 1 update
\* calls on the handle the create call returned, the Booster holding it.
TrainRounds(n) ==
    /\ Len(calls) = n
    /\ calls[1].fn = "LGBM_BoosterCreate"
    /\ \A k \in 2..n :
          calls[k].fn = "LGBM_BoosterUpdateOneIter" /\ calls[k].handle = calls[1].out
    /\ \A k \in 1..n : calls[k].status = 0
    /\ boosters[result.value].handle = calls[1].out

\* C3: a successful train with num_iterations = N, N >= 1, issued one create
\* call and then exactly N - 1 update calls on the handle it returned.
C3_ExplicitIterations ==
    (/\ Returned("train")
     /\ result.kind = "Ok"
     /\ Index(args.parameter, KeyNumIterations).kind = "int"
     /\ Index(args.parameter, KeyNumIterations).int >= 1)
        => TrainRounds(Index(args.parameter, KeyNumIterations).int)

C3_Witness ==
    /\ Returned("train")
    /\ result.kind = "Ok"
    /\ Index(args.parameter, KeyNumIterations) = JInt(3)
    /\ Len(calls) = 3

\* The configuration is an object with no num_iterations key.
LacksNumIterations(parameter) ==
    /\ parameter.kind = "object"
    /\ \A k \in 1..Len(parameter.elems) : parameter.elems[k][1] # KeyNumIterations

\* C4: a successful train with a configuration that has no num_iterations key
\* issued one create call and then exactly 99 update calls.
C4_DefaultIterations ==
    (Returned("train") /\ result.kind = "Ok" /\ LacksNumIterations(args.parameter))
        => TrainRounds(100)

C4_Witness ==
    /\ Returned("train")
    /\ result.kind = "Ok"
    /\ LacksNumIterations(args.parameter)
    /\ Len(calls) = 100

\* The argument errors of train: a configuration that is no object, a
\* num_iterations value that is neither null nor an integer, a key with a 0
\* byte.
InvalidTrainArgument(parameter) ==
    \/ parameter.kind # "object"
    \/ Index(parameter, KeyNumIterations).kind \notin {"null", "int"}
    \/ \E k \in 1..Len(parameter.elems) : HasNul(parameter.elems[k][1])

\* C5: train called with an argument error returns an EncodingFailure to the
\* caller and has issued no native call.
C5_ArgumentErrorsAreEncodingFailures ==
    (Returned("train") /\ InvalidTrainArgument(args.parameter))
        => (result.kind = "EncodingFailure" /\ calls = <<>>)

\* floor(a / b), b # 0.
FloorDiv(a, b) == IF b > 0 THEN a \div b ELSE (0 - a) \div (0 - b)

\* The log and the result of a successful predict that took rows rows.
PredictRows(rows) ==
    /\ Len(calls) = 2
    /\ calls[1].fn = "LGBM_BoosterGetNumClasses"
    /\ calls[2].fn = "LGBM_BoosterPredictForMat"
    /\ calls[2].nrow = rows
    /\ result.value = rows * calls[1].out

\* C6 as stated: for every length and column count, a successful predict
\* returns floor(len / ncol) * num_class values and gave floor(len / ncol) as
\* the row count to the native predict call.
C6_FloorRowsForEveryInput ==
    (Returned("predict") /\ result.kind = "Ok")
        => PredictRows(FloorDiv(args.len, args.ncol))

\* C6 as amended: for a column count of at least 1, a successful predict
\* returns floor(len / ncol) * num_class values and gave floor(len / ncol) as
\* the row count to the native predict call.
C6_FloorRowsForPositiveNcol ==
    (Returned("predict") /\ result.kind = "Ok" /\ args.ncol >= 1)
        => PredictRows(args.len \div args.ncol)

\* A successful predict on 3 values in 2 columns: the last value is dropped.
C6_Witness ==
    /\ Returned("predict")
    /\ result.kind = "Ok"
    /\ args.len = 3
    /\ args.ncol = 2
    /\ calls[2].nrow = 1
    /\ result.value = calls[1].out

\* C7: from_file called with a path that is not valid returns a
\* NativeCallFailure: no panic, no Booster constructed, no free call.
C7_InvalidPathIsNativeCallFailure ==
    (Returned("from_file") /\ args.filename # GoodPath)
        => /\ result.kind = "NativeCallFailure"
           /\ result.value = 0
           /\ \A k \in 1..Len(calls) : calls[k].fn # "LGBM_BoosterFree"

\* The operations that issue more than one native call.
MultiCallOps == {"train", "predict", "feature_name", "feature_importance"}

\* C8: in train, predict, feature_name and feature_importance (and in the
\* operations of one native call) the first native call that returns a
\* nonzero status is the last call of the operation, the operation ends at
\* once with a NativeCallFailure, and an operation that returns Ok has seen
\* status 0 from every call it issued.
C8_FirstFailureEndsOperation ==
    /\ \A k \in 1..Len(calls) : calls[k].status # 0 => k = Len(calls)
    /\ (calls # <<>> /\ calls[Len(calls)].status # 0 /\ result.op # "drop")
          => (pc = "returned" /\ result.kind = "NativeCallFailure")
    /\ (pc = "returned" /\ result.op \in MultiCallOps /\ result.kind = "Ok")
          => (calls # <<>> /\ \A k \in 1..Len(calls) : calls[k].status = 0)

\* A train whose second update call failed.
C8_Witness ==
    /\ Returned("train")
    /\ result.kind = "NativeCallFailure"
    /\ Len(calls) = 3
    /\ calls[3].fn = "LGBM_BoosterUpdateOneIter"
    /\ calls[3].status # 0

\* C9: no two Boosters that are alive hold the same handle, and the handle
\* of a Booster that is alive is not null.
C9_HandleNeverShared ==
    \A b \in Live :
        /\ boosters[b].handle # null_mut
        /\ \A c \in Live : boosters[b].handle = boosters[c].handle => b = c

\* Two Boosters are alive, the second one returned by train.
C9_Witness ==
    /\ Returned("train")
    /\ result.kind = "Ok"
    /\ Cardinality(Live) = 2

\* Some entry of the configuration has an array or a map as its value.
HasNestedValue(parameter) ==
    /\ parameter.kind = "object"
    /\ \E k \in 1..Len(parameter.elems) :
          parameter.elems[k][2].kind \in {"array", "object"}

\* C10: train called with a configuration in which some entry's value is an
\* array or a map issues no native create call and returns a failure.
C10_NestedValuesRejected ==
    HasNestedValue(args.parameter) =>
        /\ \A k \in 1..Len(calls) : calls[k].fn # "LGBM_BoosterCreate"
        /\ Returned("train") => result.kind # "Ok"

\* C11: a successful feature_name allocated one slot per feature that the
\* num-feature query reported, gave that count (and the slot capacity 32) to
\* the get-feature-names call, and returned one text per slot, in slot order.
C11_OneNamePerFeature ==
    (Returned("feature_name") /\ result.kind = "Ok") =>
        /\ Len(calls) = 2
        /\ calls[1].fn = "LGBM_BoosterGetNumFeature"
        /\ calls[2].fn = "LGBM_BoosterGetFeatureNames"
        /\ Len(out_strs) = calls[1].out
        /\ calls[2].ncol = calls[1].out
        /\ calls[2].nrow = 32
        /\ Len(result.names) = calls[1].out
        /\ \A k \in 1..Len(result.names) : result.names[k] = out_strs[k].text
        /\ \A k \in 1..Len(out_strs) : out_strs[k].text = k

\* A successful feature_name on a model of two features.
C11_Witness ==
    /\ Returned("feature_name")
    /\ result.kind = "Ok"
    /\ calls[1].out = 2
    /\ result.names = <<1, 2>>

\* The native calls of a train that runs to its end, by the configuration
\* alone: the create call, and an update call for each round after the first.
ConfiguredCalls(parameter) ==
    LET v == Index(parameter, KeyNumIterations)
        n == IF v.kind = "int" THEN v.int ELSE 100
    IN IF n >= 1 THEN n ELSE 1

\* C12: when the native engine has set is_finished, train goes on: its next
\* step is the next update call, unless the configured number of calls has
\* been issued, and train ends only by a failed call or with all of the
\* configured calls issued.
C12_NoEarlyStop ==
    [][(pc = "train_loop" /\ frame.is_finished = 1) =>
          \/ /\ pc' = "train_loop"
             /\ Len(calls') = Len(calls) + 1
             /\ calls'[Len(calls')].fn = "LGBM_BoosterUpdateOneIter"
             /\ calls'[Len(calls')].status = 0
          \/ /\ pc' = "returned"
             /\ result'.kind = "NativeCallFailure"
             /\ calls'[Len(calls')].status # 0
          \/ /\ pc' = "returned"
             /\ result'.kind = "Ok"
             /\ Len(calls') = ConfiguredCalls(args.parameter)]_vars

\* The native engine has set is_finished in the first update call of a train
\* of three rounds: the loop has another turn to take.
C12_Witness ==
    /\ pc = "train_loop"
    /\ frame.is_finished = 1
    /\ Index(args.parameter, KeyNumIterations) = JInt(3)
    /\ Len(calls) = 2

\* C13: a nonzero status of the free call at drop ends in a panic; the free
\* call is the only native call of the drop and is issued once.
C13_FreeFailureIsFatal ==
    Returned("drop") =>
        /\ Len(calls) = 1
        /\ calls[1].fn = "LGBM_BoosterFree"
        /\ frees[result.value] = 1
        /\ calls[1].status # 0 => result.kind = "panic"
        /\ calls[1].status = 0 => result.kind = "Ok"

\* A drop whose free call failed.
C13_Witness ==
    /\ Returned("drop")
    /\ calls[1].status # 0
    /\ result.kind = "panic"
    /\ boosters[result.value].st = "dropped"

RECURSIVE Split(_)
\* The parts of a text between its spaces; a text without a space is one part.
Split(text) ==
    IF \A k \in 1..Len(text) : text[k] # " " THEN <<text>>
    ELSE LET k == CHOOSE j \in 1..Len(text) :
                    text[j] = " " /\ \A i \in 1..(j - 1) : text[i] # " "
         IN <<SubSeq(text, 1, k - 1)>> \o Split(SubSeq(text, k + 1, Len(text)))

\* The pairs of a parameter string: none for the empty string.
Pairs(text) == IF text = <<>> THEN <<>> ELSE Split(text)

HasPrefix(text, prefix) ==
    Len(text) >= Len(prefix) /\ SubSeq(text, 1, Len(prefix)) = prefix

\* The create call of the train in progress (or of the last train) has been
\* issued.
CreateIssued == calls # <<>> /\ calls[1].fn = "LGBM_BoosterCreate"

\* C14: the parameter string given to the create call has one pair per entry
\* of the configuration, in the order of the entries, each the entry's name,
\* an equals sign and a value, and no other pair; with no num_iterations
\* entry it has no num_iterations pair, and the train that succeeds has
\* still made 100 rounds.
C14_OnePairPerEntry ==
    CreateIssued =>
        LET entries == args.parameter.elems
            pairs == Pairs(calls[1].params)
        IN /\ Len(pairs) = Len(entries)
           /\ \A k \in 1..Len(pairs) :
                 /\ HasPrefix(pairs[k], entries[k][1] \o <<"=">>)
                 /\ Len(pairs[k]) > Len(entries[k][1]) + 1
           /\ LacksNumIterations(args.parameter) =>
                 /\ \A k \in 1..Len(pairs) :
                       ~HasPrefix(pairs[k], KeyNumIterations \o <<"=">>)
                 /\ (Returned("train") /\ result.kind = "Ok") => Len(calls) = 100

\* The create call for the configuration {"x": "y", "z": 1}, which has no
\* num_iterations entry, was given two pairs.
C14_Witness ==
    /\ CreateIssued
    /\ Len(args.parameter.elems) = 2
    /\ LacksNumIterations(args.parameter)
    /\ Len(Pairs(calls[1].params)) = 2
    /\ Returned("train")
    /\ result.kind = "Ok"

\* C15: in the parameter string given to the create call a text value is
\* the bare text and an integer value is its decimal digits; the
\* configuration {"x": "y", "z": 1} gives the string x=y z=1.
C15_TextValuesAreBare ==
    CreateIssued =>
        LET entries == args.parameter.elems
            pairs == Pairs(calls[1].params)
        IN /\ \A k \in 1..Len(entries) :
                 /\ entries[k][2].kind = "string" =>
                       pairs[k] = entries[k][1] \o <<"=">> \o entries[k][2].str
                 /\ entries[k][2].kind = "int" =>
                       pairs[k] = entries[k][1] \o <<"=">> \o IntDigits(entries[k][2].int)
           /\ args.parameter = JObject(<<<<KeyX, JStr(<<"y">>)>>, <<KeyZ, JInt(1)>>>>)
                 => calls[1].params = <<"x", "=", "y", " ", "z", "=", "1">>

\* C16: a train with num_iterations = N issues, after the create call,
\* max(N - 1, 0) update calls and no more; with N <= 0 a successful train has
\* issued the create call alone and returns a Booster holding its handle.
C16_NonPositiveIterations ==
    LET v == Index(args.parameter, KeyNumIterations)
        updates == IF v.int - 1 > 0 THEN v.int - 1 ELSE 0
    IN (CreateIssued /\ v.kind = "int") =>
          /\ Len(calls) <= 1 + updates
          /\ \A k \in 2..Len(calls) : calls[k].fn = "LGBM_BoosterUpdateOneIter"
          /\ (Returned("train") /\ result.kind = "Ok") =>
                /\ Len(calls) = 1 + updates
                /\ boosters[result.value] = [st |-> "live", handle |-> calls[1].out]
                /\ v.int <= 0 => Len(calls) = 1

\* A successful train with num_iterations = 0.
C16_Witness ==
    /\ Returned("train")
    /\ result.kind = "Ok"
    /\ Index(args.parameter, KeyNumIterations) = JInt(0)
    /\ Len(calls) = 1
    /\ boosters[result.value].st = "live"

\* C17: when feature_name returns, with its names or with the failure of a
\* native call, every slot it allocated has been reclaimed.
C17_SlotsReclaimed ==
    (Returned("feature_name") /\ result.kind \in {"Ok", "NativeCallFailure"}) =>
        \A k \in 1..Len(out_strs) : out_strs[k].state = "reclaimed"

\* C18: predict called with num_features = 0 ends in a panic and issues no
\* native call.
C18_ZeroColumnsPanics ==
    /\ (Returned("predict") /\ args.ncol = 0) => (result.kind = "panic" /\ calls = <<>>)
    /\ pc = "predict_for_mat" => args.ncol # 0

\* predict was called on three values with num_features = 0.
C18_Witness ==
    /\ Returned("predict")
    /\ args.ncol = 0
    /\ args.len = 3
    /\ result.kind = "panic"
    /\ Live # {}

====
